---- MODULE Spec2Model ----
(***************************************************************************)
(* A model of the RAG application: the ingestion script                    *)
(* (src/ingest_pdfs_blob.py) and the chat front-end                        *)
(* (src/rag_chatbot_app.py).                                               *)
(*                                                                         *)
(* Strings are sequences of characters (the chunker) or of tokens (the     *)
(* chat prompt); Python lists are sequences; a Python list object that can *)
(* be aliased lives in a heap indexed by references.                       *)
(***************************************************************************)
EXTENDS Integers, Sequences, FiniteSets, TLC

VARIABLES
    \* ---- chunk_text(text, chunk_size, overlap): ingest_pdfs_blob.py 60-69
    text, chunk_size, overlap, words, chunks, start, starts, cpc,
    \* ---- the ingestion script: ingest_pdfs_blob.py 74-121
    blobs, bi, ipc, doc_text, doc_chunks, ci, docs_to_upload, index, nextId,
    printed, cause,
    \* ---- the chat front-end: rag_chatbot_app.py 61-115
    heap, session, chat_history, messages, user_query, results, context_chunks,
    context_text, answer, sent, ret, pc, outcome, history0, searchFailed,
    genFailed, reason

chunkVars == <<text, chunk_size, overlap, words, chunks, start, starts, cpc>>

ingestVars == <<blobs, bi, ipc, doc_text, doc_chunks, ci, docs_to_upload, index,
                nextId, printed, cause>>

chatVars == <<heap, session, chat_history, messages, user_query, results,
              context_chunks, context_text, answer, sent, ret, pc, outcome,
              history0, searchFailed, genFailed, reason>>

vars == <<chunkVars, ingestVars, chatVars>>

-----------------------------------------------------------------------------
(* Bounds of the model *)

MaxTextLen == 7
MaxChunkSize == 3
MaxOverlap == 3
MaxChunks == 5
MaxDocs == 3
MaxPages == 2
MaxTurns == 2
MaxResults == 3
ExampleWords == 1000

(* Program constants *)

DefaultChunkSize == 500
DefaultOverlap == 50
TopK == 10

-----------------------------------------------------------------------------
(* Python primitives *)

Chars == {"a", "b", " "}

IsSpace(c) == c \in {" ", "\n", "\t"}

\* All character strings of length at most n.
StringsUpTo(n) == UNION {[1..k -> Chars] : k \in 0..n}

Min(a, b) == IF a < b THEN a ELSE b

Max(a, b) == IF a > b THEN a ELSE b

\* A Python slice bound: negative counts from the end, then clamped to 0..n.
PyBound(i, n) == IF i < 0 THEN Max(i + n, 0) ELSE Min(i, n)

\* s[a:b] of a Python list (0-based, end exclusive).
PySlice(s, a, b) ==
    LET lo == PyBound(a, Len(s))
        hi == PyBound(b, Len(s))
    IN  IF lo < hi THEN SubSeq(s, lo + 1, hi) ELSE <<>>

\* str.split() with no argument: the maximal runs of non-whitespace
\* characters, in order. Computed by halving: the words of the two halves,
\* with the word that straddles the middle (if any) glued back together.
RECURSIVE Split(_)
Split(s) ==
    IF Len(s) = 0 THEN <<>>
    ELSE IF Len(s) = 1 THEN (IF IsSpace(s[1]) THEN <<>> ELSE <<s>>)
    ELSE LET m == Len(s) \div 2
             l == Split(SubSeq(s, 1, m))
             r == Split(SubSeq(s, m + 1, Len(s)))
         IN  IF ~IsSpace(s[m]) /\ ~IsSpace(s[m + 1])
             THEN SubSeq(l, 1, Len(l) - 1) \o <<l[Len(l)] \o r[1]>> \o Tail(r)
             ELSE l \o r

\* " ".join(ws), computed by halving.
RECURSIVE Join(_)
Join(ws) ==
    IF Len(ws) = 0 THEN <<>>
    ELSE IF Len(ws) = 1 THEN ws[1]
    ELSE LET m == Len(ws) \div 2
         IN  Join(SubSeq(ws, 1, m)) \o <<" ">> \o Join(SubSeq(ws, m + 1, Len(ws)))

-----------------------------------------------------------------------------
(* chunk_text *)

\* while start < len(words)
LoopCond(st, ws) == st < Len(ws)

\* A faulty variant: the slice stops one word early.
MakeChunkShort(ws, st, size) == Join(PySlice(ws, st, st + size - 1))

\* end = start + chunk_size; chunk = " ".join(words[start:end])
MakeChunk(ws, st, size) == Join(PySlice(ws, st, st + size))

\* A faulty variant: the overlap is forgotten.
NextStartSame(st, size, ov) == st + size

\* start += chunk_size - overlap
NextStart(st, size, ov) == st + size - ov

\* The text of the 1000-word example: the words "a" and "b" in turn,
\* ExampleWords of them, separated by single spaces.
ExampleText ==
    [i \in 1..(2 * ExampleWords - 1) |->
        IF i % 2 = 0 THEN " " ELSE IF i % 4 = 1 THEN "a" ELSE "b"]

ChunkInit ==
    /\ \/ /\ text \in StringsUpTo(MaxTextLen)
          /\ chunk_size \in 1..MaxChunkSize
          /\ overlap \in 0..MaxOverlap
       \/ /\ text = ExampleText
          /\ chunk_size = DefaultChunkSize
          /\ overlap = DefaultOverlap
    /\ words = <<>>
    /\ chunks = <<>>
    /\ start = 0
    /\ starts = <<>>
    /\ cpc = "call"

\* chunk_text is not running.
ChunkIdle ==
    /\ text = <<>> /\ chunk_size = DefaultChunkSize /\ overlap = DefaultOverlap
    /\ words = <<>> /\ chunks = <<>> /\ start = 0 /\ starts = <<>>
    /\ cpc = "idle"

\* lines 61-63
ChunkEnter ==
    /\ cpc = "call"
    /\ words' = Split(text)
    /\ chunks' = <<>>
    /\ start' = 0
    /\ starts' = <<>>
    /\ cpc' = "loop"
    /\ UNCHANGED <<text, chunk_size, overlap, ingestVars, chatVars>>

\* lines 64-68, one iteration; starts records the value of start at line 65
ChunkIter ==
    /\ cpc = "loop"
    /\ LoopCond(start, words)
    /\ Len(chunks) < MaxChunks
    /\ chunks' = Append(chunks, MakeChunk(words, start, chunk_size))
    /\ starts' = Append(starts, start)
    /\ start' = NextStart(start, chunk_size, overlap)
    /\ UNCHANGED <<text, chunk_size, overlap, words, cpc, ingestVars, chatVars>>

\* line 69
ChunkReturn ==
    /\ cpc = "loop"
    /\ ~LoopCond(start, words)
    /\ cpc' = "done"
    /\ UNCHANGED <<text, chunk_size, overlap, words, chunks, start, starts, ingestVars, chatVars>>

ChunkNext == ChunkEnter \/ ChunkIter \/ ChunkReturn


-----------------------------------------------------------------------------
(* The ingestion script *)

\* chunk_text as a function of its arguments: the loop of lines 64-68 run to
\* its end (it has one only when overlap < chunk_size or the text is empty).
RECURSIVE ChunkLoop(_, _, _, _, _)
ChunkLoop(ws, size, ov, st, acc) ==
    IF LoopCond(st, ws)
    THEN ChunkLoop(ws, size, ov, NextStart(st, size, ov), Append(acc, MakeChunk(ws, st, size)))
    ELSE acc

chunk_text(t, size, ov) == ChunkLoop(Split(t), size, ov, 0, <<>>)

\* read_pdf_from_blob once the blob is downloaded and parsed: the text of the
\* pages that have any, each followed by a newline.
RECURSIVE read_pdf_from_blob(_)
read_pdf_from_blob(pages) ==
    IF pages = <<>> THEN <<>>
    ELSE (IF Head(pages) # <<>> THEN Head(pages) \o <<"\n">> ELSE <<>>)
             \o read_pdf_from_blob(Tail(pages))

\* What page.extract_text() can give: nothing, or some text.
PageTexts == {<<>>, <<"a">>, <<"a", " ", "b">>}

PageLists == UNION {[1..k -> PageTexts] : k \in 0..MaxPages}

\* A blob of the container: whether its name ends with ".pdf", and its pages.
Blobs == [pdf : BOOLEAN, pages : PageLists]

\* What the Embedding Provider can answer.
Vectors == {"v1", "v2"}

IngestInit ==
    /\ blobs \in UNION {[1..k -> Blobs] : k \in 0..MaxDocs}
    /\ bi = 1
    /\ ipc = "for"
    /\ doc_text = <<>>
    /\ doc_chunks = <<>>
    /\ ci = 1
    /\ docs_to_upload = <<>>
    /\ index = <<>>
    /\ nextId = 1
    /\ printed = <<>>
    /\ cause = "none"

\* The ingestion script is not running.
IngestIdle ==
    /\ blobs = <<>> /\ bi = 1 /\ ipc = "idle" /\ doc_text = <<>>
    /\ doc_chunks = <<>> /\ ci = 1 /\ docs_to_upload = <<>> /\ index = <<>>
    /\ nextId = 1 /\ printed = <<>> /\ cause = "none"

Event(e, b, n) == [event |-> e, blob |-> b, n |-> n]

\* line 74: the listing is exhausted, the script ends
ForDone ==
    /\ ipc = "for"
    /\ bi > Len(blobs)
    /\ ipc' = "done"
    /\ UNCHANGED <<blobs, bi, doc_text, doc_chunks, ci, docs_to_upload, index,
                   nextId, printed, cause, chunkVars, chatVars>>

\* line 75: a blob whose name does not end with ".pdf" is passed over
ForSkip ==
    /\ ipc = "for"
    /\ bi <= Len(blobs)
    /\ ~blobs[bi].pdf
    /\ bi' = bi + 1
    /\ UNCHANGED <<blobs, ipc, doc_text, doc_chunks, ci, docs_to_upload, index,
                   nextId, printed, cause, chunkVars, chatVars>>

\* lines 75-77
ForPdf ==
    /\ ipc = "for"
    /\ bi <= Len(blobs)
    /\ blobs[bi].pdf
    /\ printed' = Append(printed, Event("Processing", bi, 0))
    /\ ipc' = "read"
    /\ UNCHANGED <<blobs, bi, doc_text, doc_chunks, ci, docs_to_upload, index,
                   nextId, cause, chunkVars, chatVars>>

\* line 79, read_pdf_from_blob returns
ReadOk ==
    /\ ipc = "read"
    /\ doc_text' = read_pdf_from_blob(blobs[bi].pages)
    /\ ipc' = "chunk"
    /\ UNCHANGED <<blobs, bi, doc_chunks, ci, docs_to_upload, index, nextId,
                   printed, cause, chunkVars, chatVars>>

\* line 79, the download or PdfReader raises: nothing catches it, the script
\* ends with the traceback
ReadFail ==
    /\ ipc = "read"
    /\ ipc' = "crashed"
    /\ cause' = "extract"
    /\ UNCHANGED <<blobs, bi, doc_text, doc_chunks, ci, docs_to_upload, index,
                   nextId, printed, chunkVars, chatVars>>

\* lines 80-81
ChunkDoc ==
    /\ ipc = "chunk"
    /\ doc_chunks' = chunk_text(doc_text, DefaultChunkSize, DefaultOverlap)
    /\ docs_to_upload' = <<>>
    /\ ci' = 1
    /\ ipc' = "embed"
    /\ UNCHANGED <<blobs, bi, doc_text, index, nextId, printed, cause, chunkVars, chatVars>>

\* lines 83-97, one chunk; uuid4 gives an id never given before
EmbedOk ==
    /\ ipc = "embed"
    /\ ci <= Len(doc_chunks)
    /\ \E vector \in Vectors :
          docs_to_upload' = Append(docs_to_upload,
              [id |-> nextId, content |-> doc_chunks[ci], embedding |-> vector])
    /\ nextId' = nextId + 1
    /\ ci' = ci + 1
    /\ UNCHANGED <<blobs, bi, ipc, doc_text, doc_chunks, index, printed, cause,
                   chunkVars, chatVars>>

\* line 85, the Embedding Provider raises: nothing catches it
EmbedFail ==
    /\ ipc = "embed"
    /\ ci <= Len(doc_chunks)
    /\ ipc' = "crashed"
    /\ cause' = "embed"
    /\ UNCHANGED <<blobs, bi, doc_text, doc_chunks, ci, docs_to_upload, index,
                   nextId, printed, chunkVars, chatVars>>

\* line 83, the chunks are exhausted
EmbedDone ==
    /\ ipc = "embed"
    /\ ci > Len(doc_chunks)
    /\ ipc' = "upload"
    /\ UNCHANGED <<blobs, bi, doc_text, doc_chunks, ci, docs_to_upload, index,
                   nextId, printed, cause, chunkVars, chatVars>>

\* lines 117-119
UploadOk ==
    /\ ipc = "upload"
    /\ docs_to_upload # <<>>
    /\ index' = index \o docs_to_upload
    /\ printed' = Append(printed, Event("Uploaded", bi, Len(docs_to_upload)))
    /\ bi' = bi + 1
    /\ ipc' = "for"
    /\ UNCHANGED <<blobs, doc_text, doc_chunks, ci, docs_to_upload, nextId, cause,
                   chunkVars, chatVars>>

\* line 118, the Index Store raises: nothing catches it
UploadFail ==
    /\ ipc = "upload"
    /\ docs_to_upload # <<>>
    /\ ipc' = "crashed"
    /\ cause' = "upload"
    /\ UNCHANGED <<blobs, bi, doc_text, doc_chunks, ci, docs_to_upload, index,
                   nextId, printed, chunkVars, chatVars>>

\* lines 120-121
NoUpload ==
    /\ ipc = "upload"
    /\ docs_to_upload = <<>>
    /\ printed' = Append(printed, Event("NoChunks", bi, 0))
    /\ bi' = bi + 1
    /\ ipc' = "for"
    /\ UNCHANGED <<blobs, doc_text, doc_chunks, ci, docs_to_upload, index, nextId,
                   cause, chunkVars, chatVars>>

IngestNext ==
    \/ ForDone \/ ForSkip \/ ForPdf \/ ReadOk \/ ReadFail \/ ChunkDoc
    \/ EmbedOk \/ EmbedFail \/ EmbedDone \/ UploadOk \/ UploadFail \/ NoUpload


-----------------------------------------------------------------------------
(* The chat front-end *)

\* Text is a sequence of tokens. The text input is a single line.
Queries == {<<"q1">>, <<"q2">>}

\* What a search result can hold under "content": no such key, the empty
\* string, or some text.
SearchResults ==
    {[has |-> FALSE, content |-> <<>>]} \cup
    [has : {TRUE}, content : {<<>>, <<"c1">>, <<"c2">>}]

ResultLists == UNION {[1..k -> SearchResults] : k \in 0..Min(TopK, MaxResults)}

\* What the Generation Provider can answer, and why it can fail.
Answers == {<<"a1">>}

Reasons == {<<"timeout">>, <<"quota">>}

\* The list objects: the one the session holds, and the one deepcopy makes.
Refs == {1, 2}

None == 0

\* A faulty variant: the results lacking content are kept.
RECURSIVE KeepAllChunks(_)
KeepAllChunks(rs) ==
    IF rs = <<>> THEN <<>>
    ELSE <<Head(rs).content>> \o KeepAllChunks(Tail(rs))

\* lines 51-56: the content of each result that has some, in order
RECURSIVE CollectChunks(_)
CollectChunks(rs) ==
    IF rs = <<>> THEN <<>>
    ELSE (IF Head(rs).has /\ Head(rs).content # <<>> THEN <<Head(rs).content>> ELSE <<>>)
             \o CollectChunks(Tail(rs))

\* "\n".join(cs)
RECURSIVE JoinLines(_)
JoinLines(cs) ==
    IF cs = <<>> THEN <<>>
    ELSE IF Len(cs) = 1 THEN cs[1]
    ELSE cs[1] \o <<"\n">> \o JoinLines(Tail(cs))

\* line 64
ContextText(cs) == IF cs # <<>> THEN JoinLines(cs) ELSE <<>>

\* A faulty variant: no copy is made, messages is the caller's list.
AliasCopy(h, ref) == [heap |-> h, ref |-> ref]

\* line 70, copy.deepcopy: a new list object with the same messages
DeepCopy(h, ref) ==
    LET new == CHOOSE r \in Refs : r # ref
    IN  [heap |-> [h EXCEPT ![new] = h[ref]], ref |-> new]

\* lines 71-78
SystemMessage ==
    [role |-> "system", content |-> <<"You are a helpful assistant. ...">>]

\* lines 81-84: f"Context:\n{context_text}\n\nQuestion: {user_query}"
ContextMessage(ctx, q) ==
    [role |-> "user",
     content |-> <<"Context:", "\n">> \o ctx \o <<"\n", "\n", "Question: ">> \o q]

\* A faulty variant: the failure reason is left out.
ErrorAnswerBare(e) == <<"Error generating response: ">>

\* line 95: f"Error generating response: {e}"
ErrorAnswer(e) == <<"Error generating response: ">> \o e

\* A faulty variant: the question label is kept in the stored message.
UserMessageLabelled(q) == [role |-> "user", content |-> <<"Question: ">> \o q]

\* line 98
UserMessage(q) == [role |-> "user", content |-> q]

\* line 99
AssistantMessage(a) == [role |-> "assistant", content |-> a]

\* A faulty variant: the turn is stored in the working copy.
UpdateTargetCopy(hist, msgs) == msgs

\* lines 98-101: the list the turn is appended to and that is returned
UpdateTarget(hist, msgs) == hist

ChatInit ==
    /\ heap = [r \in Refs |-> <<>>]
    /\ session = 1
    /\ chat_history = None
    /\ messages = None
    /\ user_query = <<>>
    /\ results = <<>>
    /\ context_chunks = <<>>
    /\ context_text = <<>>
    /\ answer = <<>>
    /\ sent = <<>>
    /\ ret = None
    /\ pc = "idle"
    /\ outcome = "none"
    /\ history0 = <<>>
    /\ searchFailed = FALSE
    /\ genFailed = FALSE
    /\ reason = <<>>

\* The chat front-end is not running.
ChatIdle ==
    /\ heap = [r \in Refs |-> <<>>] /\ session = 1 /\ chat_history = None
    /\ messages = None /\ user_query = <<>> /\ results = <<>>
    /\ context_chunks = <<>> /\ context_text = <<>> /\ answer = <<>>
    /\ sent = <<>> /\ ret = None /\ pc = "off" /\ outcome = "none"
    /\ history0 = <<>> /\ searchFailed = FALSE /\ genFailed = FALSE
    /\ reason = <<>>

\* lines 112-115: a non-empty input calls generate_answer with the session's
\* list; history0 keeps what that list held at the call
Submit ==
    /\ pc = "idle"
    /\ Len(heap[session]) < 2 * MaxTurns
    /\ \E user_input \in Queries \cup {<<>>} :
          /\ user_input # <<>>
          /\ user_query' = user_input
    /\ chat_history' = session
    /\ history0' = heap[session]
    /\ messages' = None
    /\ results' = <<>>
    /\ context_chunks' = <<>>
    /\ context_text' = <<>>
    /\ answer' = <<>>
    /\ sent' = <<>>
    /\ ret' = None
    /\ outcome' = "none"
    /\ searchFailed' = FALSE
    /\ genFailed' = FALSE
    /\ reason' = <<>>
    /\ pc' = "search"
    /\ UNCHANGED <<heap, session, chunkVars, ingestVars>>

\* lines 63-64, the Index Store answers
SearchOk ==
    /\ pc = "search"
    /\ \E rs \in ResultLists :
          /\ results' = rs
          /\ context_chunks' = CollectChunks(rs)
          /\ context_text' = ContextText(CollectChunks(rs))
    /\ pc' = "copy"
    /\ UNCHANGED <<heap, session, chat_history, messages, user_query, answer, sent,
                   ret, outcome, history0, searchFailed, genFailed, reason,
                   chunkVars, ingestVars>>

\* line 47, the Index Store raises: nothing in get_top_chunks or
\* generate_answer catches it, the call ends with the exception
SearchFail ==
    /\ pc = "search"
    /\ searchFailed' = TRUE
    /\ outcome' = "raised"
    /\ pc' = "raised"
    /\ UNCHANGED <<heap, session, chat_history, messages, user_query, results,
                   context_chunks, context_text, answer, sent, ret, history0,
                   genFailed, reason, chunkVars, ingestVars>>

\* line 70
CopyHistory ==
    /\ pc = "copy"
    /\ heap' = DeepCopy(heap, chat_history).heap
    /\ messages' = DeepCopy(heap, chat_history).ref
    /\ pc' = "system"
    /\ UNCHANGED <<session, chat_history, user_query, results, context_chunks,
                   context_text, answer, sent, ret, outcome, history0,
                   searchFailed, genFailed, reason, chunkVars, ingestVars>>

\* lines 71-78
AppendSystem ==
    /\ pc = "system"
    /\ heap' = [heap EXCEPT ![messages] = Append(@, SystemMessage)]
    /\ pc' = "context"
    /\ UNCHANGED <<session, chat_history, messages, user_query, results,
                   context_chunks, context_text, answer, sent, ret, outcome,
                   history0, searchFailed, genFailed, reason, chunkVars, ingestVars>>

\* lines 81-84
AppendContext ==
    /\ pc = "context"
    /\ heap' = [heap EXCEPT ![messages] = Append(@, ContextMessage(context_text, user_query))]
    /\ pc' = "generate"
    /\ UNCHANGED <<session, chat_history, messages, user_query, results,
                   context_chunks, context_text, answer, sent, ret, outcome,
                   history0, searchFailed, genFailed, reason, chunkVars, ingestVars>>

\* lines 87-93, the Generation Provider answers; sent is what it was handed
GenerateOk ==
    /\ pc = "generate"
    /\ sent' = heap[messages]
    /\ \E a \in Answers : answer' = a
    /\ pc' = "user"
    /\ UNCHANGED <<heap, session, chat_history, messages, user_query, results,
                   context_chunks, context_text, ret, outcome, history0,
                   searchFailed, genFailed, reason, chunkVars, ingestVars>>

\* lines 94-95, the Generation Provider raises
GenerateFail ==
    /\ pc = "generate"
    /\ sent' = heap[messages]
    /\ \E e \in Reasons :
          /\ reason' = e
          /\ answer' = ErrorAnswer(e)
    /\ genFailed' = TRUE
    /\ pc' = "user"
    /\ UNCHANGED <<heap, session, chat_history, messages, user_query, results,
                   context_chunks, context_text, ret, outcome, history0,
                   searchFailed, chunkVars, ingestVars>>

\* line 98
AppendUser ==
    /\ pc = "user"
    /\ heap' = [heap EXCEPT ![UpdateTarget(chat_history, messages)] =
                    Append(@, UserMessage(user_query))]
    /\ pc' = "assistant"
    /\ UNCHANGED <<session, chat_history, messages, user_query, results,
                   context_chunks, context_text, answer, sent, ret, outcome,
                   history0, searchFailed, genFailed, reason, chunkVars, ingestVars>>

\* line 99
AppendAssistant ==
    /\ pc = "assistant"
    /\ heap' = [heap EXCEPT ![UpdateTarget(chat_history, messages)] =
                    Append(@, AssistantMessage(answer))]
    /\ pc' = "return"
    /\ UNCHANGED <<session, chat_history, messages, user_query, results,
                   context_chunks, context_text, answer, sent, ret, outcome,
                   history0, searchFailed, genFailed, reason, chunkVars, ingestVars>>

\* line 101, and line 115: the session keeps the list that is returned
Return ==
    /\ pc = "return"
    /\ ret' = UpdateTarget(chat_history, messages)
    /\ session' = UpdateTarget(chat_history, messages)
    /\ outcome' = "returned"
    /\ pc' = "idle"
    /\ UNCHANGED <<heap, chat_history, messages, user_query, results,
                   context_chunks, context_text, answer, sent, history0,
                   searchFailed, genFailed, reason, chunkVars, ingestVars>>

\* the script run that raised is over; the next interaction runs the script
\* again with the session state as it is
Rerun ==
    /\ pc = "raised"
    /\ pc' = "idle"
    /\ UNCHANGED <<heap, session, chat_history, messages, user_query, results,
                   context_chunks, context_text, answer, sent, ret, outcome,
                   history0, searchFailed, genFailed, reason, chunkVars, ingestVars>>

ChatNext ==
    \/ Submit \/ SearchOk \/ SearchFail \/ CopyHistory \/ AppendSystem
    \/ AppendContext \/ GenerateOk \/ GenerateFail \/ AppendUser
    \/ AppendAssistant \/ Return \/ Rerun

-----------------------------------------------------------------------------
(* Specifications: each program on its own, and any of the three *)

\* chunk_text alone, on any of the bounded inputs
ChunkOnly == ChunkInit /\ IngestIdle /\ ChatIdle

SpecChunk == ChunkOnly /\ [][ChunkNext]_vars

\* the ingestion script alone, on any of the bounded containers
IngestOnly == ChunkIdle /\ IngestInit /\ ChatIdle

SpecIngest == IngestOnly /\ [][IngestNext]_vars

\* the chat front-end alone, from a new session
ChatOnly == ChunkIdle /\ IngestIdle /\ ChatInit

SpecChat == ChatOnly /\ [][ChatNext]_vars

Init == ChunkOnly \/ IngestOnly \/ ChatOnly

Next == ChunkNext \/ IngestNext \/ ChatNext

Spec == Init /\ [][Next]_vars

-----------------------------------------------------------------------------
(* Properties of chunk_text *)

\* The contract's precondition on the parameters.
ValidParams == 0 <= overlap /\ overlap < chunk_size

Step == chunk_size - overlap

\* The words a chunk holds, read back from its text.
WordsOf(chunk) == Split(chunk)

\* C2: chunk_text called with overlap >= chunk_size fails before producing any
\* chunk: it emits no chunk and returns no chunk sequence.
C2_InvalidOverlapRejected ==
    overlap >= chunk_size => (chunks = <<>> /\ cpc # "done")

\* C8: for non-empty text and 0 <= overlap < chunk_size, once chunk_text has
\* returned, every word position of the text lies in some chunk, every chunk
\* is the contiguous run of the text's words that begins at its start
\* position, and the start positions strictly increase.
C8_CoverageAndOrder ==
    (cpc = "done" /\ ValidParams /\ words # <<>>) =>
        /\ Len(starts) = Len(chunks)
        /\ \A i \in 0..(Len(words) - 1) :
              \E k \in 1..Len(chunks) :
                  /\ starts[k] <= i
                  /\ i < starts[k] + Len(WordsOf(chunks[k]))
        /\ \A k \in 1..Len(chunks) :
              /\ starts[k] >= 0
              /\ starts[k] + Len(WordsOf(chunks[k])) <= Len(words)
              /\ WordsOf(chunks[k]) =
                    SubSeq(words, starts[k] + 1, starts[k] + Len(WordsOf(chunks[k])))
        /\ \A k \in 1..(Len(chunks) - 1) : starts[k] < starts[k + 1]

C8_Witness ==
    /\ cpc = "done"
    /\ 0 < overlap /\ overlap < chunk_size
    /\ Len(words) >= 4
    /\ Len(chunks) >= 2
    /\ \E i, j \in 1..Len(words) : words[i] # words[j]

\* C9: for a text of N words and 0 <= overlap < chunk_size, chunk_text returns
\* one chunk for each k >= 0 with k * (chunk_size - overlap) < N, in order;
\* chunk k starts at word k * (chunk_size - overlap) and holds
\* min(chunk_size, N - k * (chunk_size - overlap)) words, so no chunk is empty
\* and a chunk shorter than chunk_size reaches the end of the text; empty text
\* gives no chunk; the 1000-word text with the defaults 500 and 50 gives three
\* chunks starting at words 0, 450 and 900, the third shorter than 500 words.
C9_ChunkLayout ==
    (cpc = "done" /\ ValidParams) =>
        LET N == Len(words)
        IN  /\ Len(chunks) = Cardinality({k \in 0..N : k * Step < N})
            /\ Len(starts) = Len(chunks)
            /\ \A k \in 0..(Len(chunks) - 1) :
                  LET n == Min(chunk_size, N - k * Step)
                  IN  /\ starts[k + 1] = k * Step
                      /\ n >= 1
                      /\ chunks[k + 1] # <<>>
                      /\ WordsOf(chunks[k + 1]) = SubSeq(words, k * Step + 1, k * Step + n)
                      /\ (n < chunk_size => k * Step + n = N)
            /\ (text = <<>> => chunks = <<>>)
            /\ (text = ExampleText /\ chunk_size = DefaultChunkSize
                    /\ overlap = DefaultOverlap) =>
                  /\ starts = <<0, 450, 900>>
                  /\ Len(WordsOf(chunks[1])) = 500
                  /\ Len(WordsOf(chunks[2])) = 500
                  /\ Len(WordsOf(chunks[3])) < 500

C9_Witness ==
    /\ cpc = "done"
    /\ text = ExampleText
    /\ Len(words) = ExampleWords
    /\ Len(chunks) = 3

-----------------------------------------------------------------------------
(* Properties of the ingestion script *)

Terminated == ipc \in {"done", "crashed"}

\* Blob i went through the upload step (with or without records).
Processed(i) ==
    \E k \in 1..Len(printed) :
        printed[k].blob = i /\ printed[k].event \in {"Uploaded", "NoChunks"}

\* The text extraction of blob i is the one that failed.
ExtractFailed(i) == ipc = "crashed" /\ cause = "extract" /\ bi = i

\* C3: when the run is over and nothing but a text extraction has failed,
\* every PDF of the batch other than the one whose extraction failed, before
\* and after it, has been extracted, chunked, embedded and uploaded.
C3_ExtractionFailureIsolated ==
    (Terminated /\ cause \in {"none", "extract"}) =>
        \A i \in 1..Len(blobs) :
            blobs[i].pdf => (ExtractFailed(i) \/ Processed(i))

-----------------------------------------------------------------------------
(* Properties of generate_answer *)

\* The two messages a turn adds to the history.
Turn == <<[role |-> "user", content |-> user_query],
          [role |-> "assistant", content |-> answer]>>

\* C1 (as stated): at every point of a call the list object the caller passed
\* holds what it held before the call, and the list returned is another
\* object.
C1_CallerListUntouched ==
    /\ pc \notin {"idle", "off"} => heap[chat_history] = history0
    /\ outcome = "returned" => ret # chat_history

\* C1 (amended): through retrieval, prompt construction and generation the
\* caller's list holds what it held before the call, and the working copy is
\* another object; the last step appends the bare user message and then the
\* assistant message to the caller's list itself, which is the list returned.
C1_CallerListUntouchedUntilUpdate ==
    /\ pc \in {"search", "copy", "system", "context", "generate", "user", "raised"}
          => heap[chat_history] = history0
    /\ pc \in {"system", "context", "generate", "user", "assistant", "return"}
          => messages \in Refs /\ messages # chat_history
    /\ pc = "assistant" => heap[chat_history] = history0 \o <<Turn[1]>>
    /\ pc = "return" => heap[chat_history] = history0 \o Turn
    /\ outcome = "returned" =>
          /\ ret = chat_history
          /\ session = ret
          /\ (pc = "idle" => heap[ret] = history0 \o Turn)

C1_Witness ==
    /\ pc = "return"
    /\ history0 # <<>>
    /\ Len(heap[messages]) = Len(history0) + 2
    /\ Len(heap[chat_history]) = Len(history0) + 2
    /\ heap[messages] # heap[chat_history]

\* C4: when the Index Store query fails, the call does not end with the
\* exception: the context is empty, the Generation Provider is called, an
\* answer is returned and the history gains the turn's two messages.
C4_QueryFailureDegrades ==
    searchFailed =>
        /\ outcome # "raised"
        /\ context_text = <<>>
        /\ pc = "idle" =>
              /\ outcome = "returned"
              /\ sent # <<>>
              /\ heap[session] = history0 \o Turn

\* C5: when the Generation Provider fails, the call does not end with the
\* exception: the answer is the failure notice followed by the failure
\* reason, and the history returned is the input history plus the bare user
\* message and an assistant message with that answer.
C5_GenerationFailureAnswered ==
    genFailed =>
        /\ pc \in {"user", "assistant", "return", "idle"}
        /\ outcome # "raised"
        /\ reason \in Reasons
        /\ answer = <<"Error generating response: ">> \o reason
        /\ outcome = "returned" =>
              heap[ret] = history0 \o
                  <<[role |-> "user", content |-> user_query],
                    [role |-> "assistant",
                     content |-> <<"Error generating response: ">> \o reason]>>

C5_Witness ==
    /\ genFailed
    /\ outcome = "returned"
    /\ pc = "idle"
    /\ history0 # <<>>

\* Every context-wrapped user message a prompt can hold.
ContextMessages ==
    {ContextMessage(ContextText(CollectChunks(rs)), q) : rs \in ResultLists, q \in Queries}

\* C6: the history the session holds has only user and assistant messages:
\* never the system instruction, never a context-wrapped user message; its
\* user messages are bare queries.
C6_OnlyUserAndAssistantPersisted ==
    \A i \in 1..Len(heap[session]) :
        LET m == heap[session][i]
        IN  /\ m.role \in {"user", "assistant"}
            /\ m # SystemMessage
            /\ m \notin ContextMessages
            /\ m.role = "user" => m.content \in Queries

C6_Witness ==
    /\ pc = "idle"
    /\ outcome = "returned"
    /\ Len(heap[session]) = 4
    /\ genFailed
    /\ results # <<>>

\* C7: the history returned is the input history followed by exactly two
\* messages: a user message whose content is the bare query and an assistant
\* message whose content is the answer returned.
C7_HistoryGainsBareTurn ==
    outcome = "returned" =>
        /\ Len(heap[ret]) = Len(history0) + 2
        /\ SubSeq(heap[ret], 1, Len(history0)) = history0
        /\ heap[ret][Len(history0) + 1] = [role |-> "user", content |-> user_query]
        /\ heap[ret][Len(history0) + 2] = [role |-> "assistant", content |-> answer]
        /\ user_query \in Queries

C7_Witness ==
    /\ outcome = "returned"
    /\ results = <<>>
    /\ history0 # <<>>
    /\ ~genFailed

\* The results that have content, in the order returned.
WithContent(rs) == SelectSeq(rs, LAMBDA r : r.has /\ r.content # <<>>)

\* The contents of rs from the i-th on, a newline before each but the first.
RECURSIVE LinesFrom(_, _)
LinesFrom(rs, i) ==
    IF i > Len(rs) THEN <<>>
    ELSE (IF i > 1 THEN <<"\n">> ELSE <<>>) \o rs[i].content \o LinesFrom(rs, i + 1)

\* C10: what the Generation Provider is handed is the input history, then one
\* system instruction, then one user message made of "Context:", a newline,
\* the context block, two newlines, "Question: " and the query; the context
\* block is the contents of the results that have one, in the order returned,
\* joined by newlines, and is empty when there is none.
C10_PromptLayout ==
    pc \in {"user", "assistant", "return"} \/ (pc = "idle" /\ outcome = "returned") =>
        /\ Len(sent) = Len(history0) + 2
        /\ SubSeq(sent, 1, Len(history0)) = history0
        /\ sent[Len(history0) + 1].role = "system"
        /\ sent[Len(history0) + 1] = SystemMessage
        /\ sent[Len(history0) + 2] =
              [role |-> "user",
               content |-> <<"Context:", "\n">> \o LinesFrom(WithContent(results), 1)
                               \o <<"\n", "\n", "Question: ">> \o user_query]
        /\ (WithContent(results) = <<>> => context_text = <<>>)
        /\ context_text = LinesFrom(WithContent(results), 1)

C10_Witness ==
    /\ pc = "user"
    /\ history0 # <<>>
    /\ Len(results) = 3
    /\ Len(WithContent(results)) = 2
    /\ ~results[2].has

====
